---- MODULE Spec2Model ----
(***************************************************************************)
(* Trunk admission control and call lifecycle of the telephony backend:    *)
(* SipTrunk / CallLog (app/models/sip_trunk.py) and SipTrunkService        *)
(* (app/services/sip_trunk_service.py).                                    *)
(*                                                                         *)
(* trunks and calls are the committed rows of the sip_trunks and call_logs *)
(* tables.  Every request runs in its own AsyncSession (core/database.py   *)
(* get_db): it loads rows into the session at an awaited SELECT, changes   *)
(* the loaded objects in memory, and writes the changed attributes back at *)
(* the awaited commit.  Other requests run between the two awaits.         *)
(***************************************************************************)
EXTENDS Integers, FiniteSets, Sequences, TLC

VARIABLES trunks, calls, sessions, last, history

vars == <<trunks, calls, sessions, last, history>>

(* ---------------------------- bounds ----------------------------------- *)

\* largest max_concurrent_calls a trunk is configured with
MaxCap == 2

TrunkIds == {"t1", "t2"}
UserIds == {"u1", "u2"}
CallIds == {"c1", "c2"}
SessionIds == {"s1", "s2"}

\* a sip_trunk_id that matches no row of sip_trunks
NoSuchTrunk == "t0"

\* the timestamps lifecycle events carry
Times == {1}

(* ---------------------- optional (nullable) values --------------------- *)

\* a nullable column / Optional field: None is {}, a value v is {v}
None == {}

Some(v) == {v}

IsSet(x) == x # None

Val(x) == CHOOSE v \in x : TRUE

(* ------------------------------ enums ---------------------------------- *)

SipTrunkStatus == {"active", "inactive", "suspended", "maintenance", "error"}

CallDirection == {"inbound", "outbound", "bidirectional"}

\* values update_health_status receives from the providers' health_check
HealthStatuses == {"unknown", "healthy", "unhealthy", "error"}

\* CallLog.status is free text; these are the lifecycle states the callers use
CallStatuses == {"initiated", "ringing", "answered", "ended", "failed"}

(* --------------------------- SipTrunk model ---------------------------- *)

\* is_active with the health check dropped
is_active_any_health(trunk) == trunk.status = "active"

is_active(trunk) ==
    trunk.status = "active" /\ trunk.health_status = "healthy"

\* can_handle_call with the capacity check dropped
can_handle_call_uncapped(trunk) == is_active(trunk)

can_handle_call(trunk) ==
    is_active(trunk) /\ trunk.current_active_calls < trunk.max_concurrent_calls

\* the trunk object after increment_active_calls()
increment_active_calls(trunk) ==
    IF can_handle_call(trunk)
    THEN [trunk EXCEPT !.current_active_calls = @ + 1]
    ELSE trunk

\* the value increment_active_calls() returns
increment_active_calls_ret(trunk) == can_handle_call(trunk)

\* decrement_active_calls with the "> 0" guard dropped
decrement_active_calls_unguarded(trunk) ==
    [trunk EXCEPT !.current_active_calls = @ - 1]

\* the trunk object after decrement_active_calls()
decrement_active_calls(trunk) ==
    IF trunk.current_active_calls > 0
    THEN [trunk EXCEPT !.current_active_calls = @ - 1]
    ELSE trunk

(* ------------------------------- rows ---------------------------------- *)

\* a row of sip_trunks, with the columns admission and selection read
TrunkRow(u, st, h, d, m, n, pr, del) ==
    [user_id |-> u, status |-> st, health_status |-> h, call_direction |-> d,
     max_concurrent_calls |-> m, current_active_calls |-> n, priority |-> pr,
     deleted_at |-> del]

\* no row of call_logs carries this call_id yet
NoCall ==
    [created |-> FALSE, user_id |-> "", sip_trunk_id |-> "", status |-> "",
     answered_at |-> None, ended_at |-> None, duration_seconds |-> None,
     cost |-> 0, admitted |-> FALSE]

\* a session with no request in progress
Idle == [pc |-> "idle"]

\* nothing has returned yet
NoReturn == [op |-> "none"]

\* no health probe has run yet: history[t] counts the failed probes of trunk t
\* since its last successful one
NoHistory == [t \in TrunkIds |-> 0]

(* ------------------- SipTrunk methods, one call per step --------------- *)

\* trunk objects in any state of status, health and load
UnitRows ==
    {TrunkRow("u1", st, h, "bidirectional", m, n, 1, None) :
        st \in SipTrunkStatus, h \in HealthStatuses,
        m \in 1..MaxCap, n \in 0..MaxCap}

UnitInit ==
    /\ trunks \in [TrunkIds -> UnitRows]
    /\ \A t \in TrunkIds :
          trunks[t].current_active_calls <= trunks[t].max_concurrent_calls
    /\ calls = [c \in CallIds |-> NoCall]
    /\ sessions = [s \in SessionIds |-> Idle]
    /\ last = NoReturn
    /\ history = NoHistory

\* trunk.increment_active_calls() on the object of trunk t
Increment(t) ==
    /\ trunks' = [trunks EXCEPT ![t] = increment_active_calls(trunks[t])]
    /\ last' = [op |-> "increment_active_calls", trunk_id |-> t,
                before |-> trunks[t],
                ret |-> increment_active_calls_ret(trunks[t])]
    /\ UNCHANGED <<calls, sessions, history>>

\* trunk.decrement_active_calls() on the object of trunk t
Decrement(t) ==
    /\ trunks' = [trunks EXCEPT ![t] = decrement_active_calls(trunks[t])]
    /\ last' = [op |-> "decrement_active_calls", trunk_id |-> t,
                before |-> trunks[t], ret |-> None]
    /\ UNCHANGED <<calls, sessions, history>>

UnitNext ==
    \/ \E t \in TrunkIds : Increment(t)
    \/ \E t \in TrunkIds : Decrement(t)

SpecUnit == UnitInit /\ [][UnitNext]_vars

(* -------------------------- CallLog model ------------------------------ *)

\* Timestamps count half seconds.  int(delta.total_seconds()): Python's int()
\* drops the fraction, rounding towards zero
int_total_seconds(delta) ==
    IF delta >= 0 THEN delta \div 2 ELSE 0 - ((0 - delta) \div 2)

\* CallLog.calculate_duration(): int((ended_at - answered_at).total_seconds())
calculate_duration(call_log) ==
    IF IsSet(call_log.answered_at) /\ IsSet(call_log.ended_at)
    THEN [call_log EXCEPT !.duration_seconds =
              Some(int_total_seconds(Val(call_log.ended_at)
                                     - Val(call_log.answered_at)))]
    ELSE call_log

\* CallLog.calculate_cost(): (duration_seconds / 60.0) * rate_per_minute, when
\* duration_seconds is neither None nor 0.  Rates count cents per minute and
\* costs count sixtieths of a cent, so that minutes * rate is a whole number
calculate_cost(call_log, rate_per_minute) ==
    IF IsSet(call_log.duration_seconds) /\ Val(call_log.duration_seconds) # 0
    THEN [call_log EXCEPT !.cost = Val(call_log.duration_seconds) * rate_per_minute]
    ELSE call_log

(* ----------------------- CallLogUpdate requests ------------------------ *)

UpdateFields == {"status", "answered_at", "ended_at", "duration_seconds", "cost"}

\* a CallLogUpdate body: fields_set are the fields the request carries, the
\* others keep their default None
CallLogUpdate(fs, st, an, en) ==
    [fields_set |-> fs, status |-> st, answered_at |-> an, ended_at |-> en]

\* the lifecycle events a provider delivers: ringing, answered, ended, failed
UpdateRequests ==
    {CallLogUpdate({"status"}, Some("ringing"), None, None)}
    \cup {CallLogUpdate({"status", "answered_at"}, Some("answered"), Some(t), None) :
            t \in Times}
    \cup {CallLogUpdate({"status", "ended_at"}, Some(st), None, Some(t)) :
            st \in {"ended", "failed"}, t \in Times}

(* ------------------------- SipTrunkService ----------------------------- *)

\* _get_trunk_by_id: the row with this id, deleted or not
get_trunk_by_id(trunk_id) ==
    IF trunk_id \in DOMAIN trunks THEN Some(trunks[trunk_id]) ELSE None

\* the CallLog object log_call builds; status is the caller's initial status
new_call_log(trunk, trunk_id, admitted) ==
    [created |-> TRUE, user_id |-> trunk.user_id, sip_trunk_id |-> trunk_id,
     status |-> "initiated", answered_at |-> None, ended_at |-> None,
     duration_seconds |-> None, cost |-> 0, admitted |-> admitted]

\* the UPDATE of a trunk row at commit: only a changed counter is written
flush_trunk(row, loaded, object) ==
    IF object.current_active_calls # loaded.current_active_calls
    THEN [row EXCEPT !.current_active_calls = object.current_active_calls]
    ELSE row

\* the UPDATE of a call_logs row at commit: only changed attributes are written
flush_call_log(row, loaded, object) ==
    [row EXCEPT
        !.status = IF object.status # loaded.status THEN object.status ELSE @,
        !.answered_at = IF object.answered_at # loaded.answered_at
                        THEN object.answered_at ELSE @,
        !.ended_at = IF object.ended_at # loaded.ended_at
                     THEN object.ended_at ELSE @,
        !.duration_seconds = IF object.duration_seconds # loaded.duration_seconds
                             THEN object.duration_seconds ELSE @,
        !.cost = IF object.cost # loaded.cost THEN object.cost ELSE @]

\* update_call_log, "for field, value in update_dict.items(): setattr(...)"
set_update_fields(call_log, update_data) ==
    [call_log EXCEPT
        !.status = IF "status" \in update_data.fields_set
                   THEN Val(update_data.status) ELSE @,
        !.answered_at = IF "answered_at" \in update_data.fields_set
                        THEN update_data.answered_at ELSE @,
        !.ended_at = IF "ended_at" \in update_data.fields_set
                     THEN update_data.ended_at ELSE @,
        !.duration_seconds = IF "duration_seconds" \in update_data.fields_set
                             THEN update_data.duration_seconds ELSE @,
        !.cost = IF "cost" \in update_data.fields_set
                 THEN Val(update_data.cost) ELSE @]

\* call_ended_now with "and not call_log.ended_at" dropped
call_ended_now_unguarded(update_data, call_log) == IsSet(update_data.ended_at)

\* update_call_log, "if update_data.ended_at and not call_log.ended_at", with
\* call_log the object the fields were just set on
call_ended_now(update_data, call_log) ==
    IsSet(update_data.ended_at) /\ ~IsSet(call_log.ended_at)

\* update_call_log, "if call_log.ended_at and call_log.answered_at"
duration_due(call_log) ==
    IsSet(call_log.ended_at) /\ IsSet(call_log.answered_at)

(* log_call up to the awaited SELECT of the trunk *)
LogCallBegin(s, call_id, trunk_id) ==
    /\ sessions[s].pc = "idle"
    /\ LET trunk == get_trunk_by_id(trunk_id) IN
         IF ~IsSet(trunk)
         THEN \* raise ValueError("SIP trunk not found"), rollback
              /\ last' = [op |-> "log_call", ret |-> "ValueError"]
              /\ UNCHANGED <<trunks, calls, sessions, history>>
         ELSE /\ sessions' = [sessions EXCEPT ![s] =
                     [pc |-> "log_call", call_id |-> call_id,
                      sip_trunk_id |-> trunk_id, trunk |-> Val(trunk)]]
              /\ UNCHANGED <<trunks, calls, last, history>>

(* log_call from db.add(call_log) to the awaited commit *)
LogCallCommit(s) ==
    /\ sessions[s].pc = "log_call"
    /\ LET call_id == sessions[s].call_id
           trunk_id == sessions[s].sip_trunk_id
           loaded == sessions[s].trunk
           trunk == increment_active_calls(loaded)
           admitted == increment_active_calls_ret(loaded)
       IN
         IF calls[call_id].created
         THEN \* call_id is unique: the INSERT fails, rollback
              /\ last' = [op |-> "log_call", ret |-> "IntegrityError"]
              /\ UNCHANGED <<trunks, calls>>
         ELSE /\ calls' = [calls EXCEPT ![call_id] =
                     new_call_log(trunk, trunk_id, admitted)]
              /\ trunks' = [trunks EXCEPT ![trunk_id] =
                     flush_trunk(trunks[trunk_id], loaded, trunk)]
              /\ last' = [op |-> "log_call", ret |-> "ok"]
    /\ sessions' = [sessions EXCEPT ![s] = Idle]
    /\ UNCHANGED history

\* update_call_log: the CallLog object at the commit, from the object loaded
\* trunk.cost_per_minute; a row that does not carry the column has the column's
\* default, 0.01
cost_per_minute(trunk) ==
    IF "cost_per_minute" \in DOMAIN trunk THEN trunk.cost_per_minute ELSE 1

updated_call_log(loaded, update_data, trunk) ==
    LET call_log == set_update_fields(loaded, update_data) IN
      IF duration_due(call_log)
      THEN LET timed == calculate_duration(call_log) IN
             IF IsSet(trunk)
             THEN calculate_cost(timed, cost_per_minute(Val(trunk)))
             ELSE timed
      ELSE call_log

(* update_call_log, run without another request between its SELECT and its
   commit *)
UpdateCallLog(s, call_id, update_data) ==
    /\ sessions[s].pc = "idle"
    /\ IF ~calls[call_id].created
       THEN \* return None
            /\ last' = [op |-> "update_call_log", ret |-> "None"]
            /\ UNCHANGED <<trunks, calls>>
       ELSE LET loaded == calls[call_id]
                release == call_ended_now(update_data,
                               set_update_fields(loaded, update_data))
                trunk_id == loaded.sip_trunk_id
                call_log == updated_call_log(loaded, update_data,
                                             get_trunk_by_id(trunk_id))
            IN
              /\ trunks' = IF release
                           THEN [trunks EXCEPT ![trunk_id] =
                                   decrement_active_calls(trunks[trunk_id])]
                           ELSE trunks
              /\ calls' = [calls EXCEPT ![call_id] =
                              flush_call_log(calls[call_id], loaded, call_log)]
              /\ last' = [op |-> "update_call_log", ret |-> "ok",
                          redelivered |-> IsSet(update_data.ended_at)
                                          /\ IsSet(loaded.ended_at)]
    /\ UNCHANGED <<sessions, history>>

\* t1 as the admin operations can leave a trunk before calls arrive
CallRows ==
    {TrunkRow("u1", x[1], x[2], "bidirectional", m, 0, 1, None) :
        x \in {<<"active", "healthy">>, <<"active", "unknown">>,
               <<"inactive", "healthy">>},
        m \in 1..MaxCap}

\* t2 is another account's trunk, in service with one line
OtherRow == TrunkRow("u2", "active", "healthy", "bidirectional", 1, 0, 1, None)

CallsInit ==
    /\ trunks \in [TrunkIds -> CallRows \cup {OtherRow}]
    /\ trunks["t1"] \in CallRows
    /\ trunks["t2"] = OtherRow
    /\ calls = [c \in CallIds |-> NoCall]
    /\ sessions = [s \in SessionIds |-> Idle]
    /\ last = NoReturn
    /\ history = NoHistory

CallsNext ==
    \/ \E s \in SessionIds, c \in CallIds, t \in TrunkIds \cup {NoSuchTrunk} :
          LogCallBegin(s, c, t)
    \/ \E s \in SessionIds : LogCallCommit(s)
    \/ \E s \in SessionIds, c \in CallIds, u \in UpdateRequests :
          UpdateCallLog(s, c, u)

SpecCalls == CallsInit /\ [][CallsNext]_vars

(* --------------------------- trunk selection --------------------------- *)

\* the WHERE clause of get_available_trunk_for_call without "deleted_at IS NULL"
available_for_call_with_deleted(trunk, user_id, direction) ==
    /\ trunk.user_id = user_id
    /\ trunk.status = "active"
    /\ (trunk.call_direction = "bidirectional" \/ trunk.call_direction = direction)
    /\ trunk.current_active_calls < trunk.max_concurrent_calls

\* the WHERE clause of get_available_trunk_for_call
available_for_call(trunk, user_id, direction) ==
    /\ trunk.user_id = user_id
    /\ trunk.status = "active"
    /\ ~IsSet(trunk.deleted_at)
    /\ (trunk.call_direction = "bidirectional" \/ trunk.call_direction = direction)
    /\ trunk.current_active_calls < trunk.max_concurrent_calls

\* get_available_trunk_for_call: scalar_one_or_none() of the matching rows
get_available_trunk_for_call(user_id, direction) ==
    LET rows == {t \in DOMAIN trunks :
                    available_for_call(trunks[t], user_id, direction)}
    IN  IF rows = {} THEN "None"
        ELSE IF Cardinality(rows) = 1 THEN CHOOSE t \in rows : TRUE
        ELSE "MultipleResultsFound"

SelectTrunk(user_id, direction) ==
    /\ last' = [op |-> "get_available_trunk_for_call", user_id |-> user_id,
                direction |-> direction,
                ret |-> get_available_trunk_for_call(user_id, direction)]
    /\ UNCHANGED <<trunks, calls, sessions, history>>

\* trunks of either account in any state selection distinguishes
SelectRows ==
    {TrunkRow(u, st, h, d, MaxCap, n, 1, del) :
        u \in UserIds, st \in {"active", "inactive"}, h \in HealthStatuses,
        d \in CallDirection, n \in {MaxCap - 1, MaxCap},
        del \in {None, Some(1)}}

SelectInit ==
    /\ trunks \in [TrunkIds -> SelectRows]
    /\ calls = [c \in CallIds |-> NoCall]
    /\ sessions = [s \in SessionIds |-> Idle]
    /\ last = NoReturn
    /\ history = NoHistory

SelectNext == \E u \in UserIds, d \in CallDirection : SelectTrunk(u, d)

SpecSelect == SelectInit /\ [][SelectNext]_vars

(* --------------------------- health monitoring ------------------------- *)

\* the keys of SipTrunkService.providers: the providers that have a client
providers == {"twilio", "telnyx"}

\* a row of sip_trunks with its provider column
SipTrunk(u, pv, st, h, d, m, n, pr, del) ==
    [user_id |-> u, provider |-> pv, status |-> st, health_status |-> h,
     call_direction |-> d, max_concurrent_calls |-> m,
     current_active_calls |-> n, priority |-> pr, deleted_at |-> del]

\* what provider.health_check(trunk) does: it returns a result with status
\* healthy, unhealthy or error (the clients catch their own exceptions), or,
\* for a client that does not, it raises
ProbeOutcomes == {"healthy", "unhealthy", "error", "raise"}

\* SipTrunk.update_health_status(status)
update_health_status(trunk, status) == [trunk EXCEPT !.health_status = status]

\* _perform_health_check without its try/except: the provider's exception
\* leaves the method before the trunk is touched
perform_health_check_propagating(trunk, outcome) ==
    IF trunk.provider \in providers
    THEN IF outcome = "raise"
         THEN [trunk |-> trunk, status |-> "", raised |-> TRUE]
         ELSE [trunk |-> update_health_status(trunk, outcome),
               status |-> outcome, raised |-> FALSE]
    ELSE [trunk |-> update_health_status(trunk, "unknown"),
          status |-> "unknown", raised |-> FALSE]

\* _perform_health_check: the trunk object afterwards, the status of the
\* result returned, and whether an exception left the method
perform_health_check(trunk, outcome) ==
    IF trunk.provider \in providers
    THEN IF outcome = "raise"
         THEN [trunk |-> update_health_status(trunk, "error"),
               status |-> "error", raised |-> FALSE]
         ELSE [trunk |-> update_health_status(trunk, outcome),
               status |-> outcome, raised |-> FALSE]
    ELSE [trunk |-> update_health_status(trunk, "unknown"),
          status |-> "unknown", raised |-> FALSE]

\* perform_health_checks, the body of "for trunk in trunks": the entry of
\* health_results for one trunk
health_result(check) == IF check.raised THEN "error" ELSE check.status

\* the UPDATE of a trunk row at commit: only a changed health_status is written
flush_health(row, loaded, object) ==
    IF object.health_status # loaded.health_status
    THEN [row EXCEPT !.health_status = object.health_status]
    ELSE row

\* the rows perform_health_checks selects: not deleted, of the user if one is
\* given
health_check_rows(user_id) ==
    {t \in DOMAIN trunks :
        /\ ~IsSet(trunks[t].deleted_at)
        /\ (IsSet(user_id) => trunks[t].user_id = Val(user_id))}

\* the failed probes in a row that the monitor has seen on an Active trunk,
\* counted up to three; a successful probe starts the count again
count_probe(count, trunk, outcome) ==
    IF trunk.provider \notin providers THEN count
    ELSE IF outcome = "healthy" THEN 0
    ELSE IF trunk.status = "active" /\ count < 3 THEN count + 1
    ELSE count

(* perform_health_checks up to the awaited SELECT of the trunks *)
HealthChecksBegin(s, user_id) ==
    /\ sessions[s].pc = "idle"
    /\ sessions' = [sessions EXCEPT ![s] =
           [pc |-> "perform_health_checks",
            loaded |-> [t \in health_check_rows(user_id) |-> trunks[t]]]]
    /\ UNCHANGED <<trunks, calls, last, history>>

(* perform_health_checks from the probes of the loaded trunks to the commit;
   outcomes[t] is what the provider does when trunk t is probed *)
HealthChecksCommit(s) ==
    /\ sessions[s].pc = "perform_health_checks"
    /\ \E outcomes \in [DOMAIN sessions[s].loaded -> ProbeOutcomes] :
       LET loaded == sessions[s].loaded
           checks == [t \in DOMAIN loaded |->
                         perform_health_check(loaded[t], outcomes[t])]
       IN
         /\ trunks' = [t \in DOMAIN trunks |->
                IF t \in DOMAIN loaded
                THEN flush_health(trunks[t], loaded[t], checks[t].trunk)
                ELSE trunks[t]]
         /\ last' = [op |-> "perform_health_checks", ret |-> "ok",
                     outcomes |-> outcomes,
                     health_results |->
                         [t \in DOMAIN loaded |-> health_result(checks[t])]]
         /\ history' = [t \in TrunkIds |->
                IF t \in DOMAIN loaded
                THEN count_probe(history[t], loaded[t], outcomes[t])
                ELSE history[t]]
    /\ sessions' = [sessions EXCEPT ![s] = Idle]
    /\ UNCHANGED calls

\* trunks in service or in Error, not probed yet, with and without a provider
\* client
HealthRows ==
    {SipTrunk(u, pv, st, "unknown", "bidirectional", MaxCap, 0, 1, del) :
        u \in UserIds, pv \in {"twilio", "custom"}, st \in {"active", "error"},
        del \in {None, Some(1)}}

HealthInit ==
    /\ trunks \in [TrunkIds -> HealthRows]
    /\ trunks["t1"].user_id = "u1"
    /\ trunks["t1"].provider = "twilio"
    /\ ~IsSet(trunks["t1"].deleted_at)
    /\ calls = [c \in CallIds |-> NoCall]
    /\ sessions = [s \in SessionIds |-> Idle]
    /\ last = NoReturn
    /\ history = NoHistory

\* the health-check endpoint runs the checks of the caller's account (u1), a
\* scheduler those of every account
HealthNext ==
    \/ \E s \in SessionIds, u \in {None, Some("u1")} : HealthChecksBegin(s, u)
    \/ \E s \in SessionIds : HealthChecksCommit(s)
    \/ SelectTrunk("u1", "outbound")

SpecHealth == HealthInit /\ [][HealthNext]_vars

(* ------------------------- trunk administration ------------------------ *)

\* users.tier of the accounts
UserTier(user_id) == IF user_id = "u1" THEN "pro" ELSE "free"

\* _get_max_trunks_for_tier
get_max_trunks_for_tier(tier) ==
    IF tier = "free" THEN 1
    ELSE IF tier = "pro" THEN 5
    ELSE IF tier = "enterprise" THEN 50
    ELSE 1

\* _count_user_trunks: the user's rows that are not deleted
count_user_trunks(user_id) ==
    Cardinality({t \in DOMAIN trunks :
                    trunks[t].user_id = user_id /\ ~IsSet(trunks[t].deleted_at)})

\* _get_trunk: the row with this id if it is the user's and not deleted
get_trunk(user_id, trunk_id) ==
    IF /\ trunk_id \in DOMAIN trunks
       /\ trunks[trunk_id].user_id = user_id
       /\ ~IsSet(trunks[trunk_id].deleted_at)
    THEN Some(trunks[trunk_id])
    ELSE None

\* what provider.initialize_trunk(trunk) does: it returns, or it raises
InitOutcomes == {"ok", "raise"}

\* _initialize_trunk_with_provider: the trunk object afterwards
initialize_trunk_with_provider(trunk, outcome) ==
    IF trunk.provider \in providers
    THEN IF outcome = "ok"
         THEN [trunk EXCEPT !.status = "active"]
         ELSE [trunk EXCEPT !.status = "error"]
    ELSE trunk

\* provider.initialize_trunk was called for this trunk and returned
initialized(trunk, outcome) == trunk.provider \in providers /\ outcome = "ok"

\* the SipTrunk object create_sip_trunk adds: status and health_status take
\* their column defaults
new_sip_trunk(user_id, provider, max_concurrent_calls) ==
    SipTrunk(user_id, provider, "inactive", "unknown", "bidirectional",
             max_concurrent_calls, 0, 1, None)

\* the id the new row gets: one no row has yet
new_trunk_id == IF "t1" \notin DOMAIN trunks THEN "t1" ELSE "t2"

\* the ids of the trunks the administration requests create
AdminTrunkIds == {"t1"}

\* the UPDATE of a trunk row at commit: only changed attributes are written
flush_sip_trunk(row, loaded, object) ==
    [row EXCEPT
        !.status = IF object.status # loaded.status THEN object.status ELSE @,
        !.health_status = IF object.health_status # loaded.health_status
                          THEN object.health_status ELSE @,
        !.max_concurrent_calls =
            IF object.max_concurrent_calls # loaded.max_concurrent_calls
            THEN object.max_concurrent_calls ELSE @,
        !.deleted_at = IF object.deleted_at # loaded.deleted_at
                       THEN object.deleted_at ELSE @]

\* a SipTrunkUpdate body: fields_set are the fields the request carries
SipTrunkUpdate(fs, st) == [fields_set |-> fs, status |-> st]

\* update_sip_trunk, "for field, value in update_dict.items(): setattr(...)"
set_trunk_fields(trunk, update_data) ==
    [trunk EXCEPT
        !.status = IF "status" \in update_data.fields_set
                   THEN Val(update_data.status) ELSE @,
        !.max_concurrent_calls =
            IF "max_concurrent_calls" \in update_data.fields_set
            THEN Val(update_data.max_concurrent_calls) ELSE @]

\* update_sip_trunk, "if any(field in update_dict for field in [...])": of the
\* four fields only sip_password is a field of SipTrunkUpdate
configuration_changed(update_data) == "sip_password" \in update_data.fields_set

(* create_sip_trunk up to the commit that inserts the row, run without another
   request between its count and its INSERT *)
CreateTrunkBegin(s, user_id, provider) ==
    /\ sessions[s].pc = "idle"
    /\ new_trunk_id \in AdminTrunkIds
    /\ IF count_user_trunks(user_id) >= get_max_trunks_for_tier(UserTier(user_id))
       THEN \* raise ValueError("Maximum number of trunks ... reached"), rollback
            /\ last' = [op |-> "create_sip_trunk", ret |-> "ValueError",
                        trunk_id |-> "", initialized |-> FALSE]
            /\ UNCHANGED <<trunks, sessions>>
       ELSE LET trunk == new_sip_trunk(user_id, provider, MaxCap) IN
              /\ trunks' = (new_trunk_id :> trunk) @@ trunks
              /\ sessions' = [sessions EXCEPT ![s] =
                     [pc |-> "create_sip_trunk", trunk_id |-> new_trunk_id,
                      trunk |-> trunk]]
              /\ UNCHANGED last
    /\ UNCHANGED <<calls, history>>

(* create_sip_trunk from the provider initialization and the first health
   check to the commit of the request's session (get_db) *)
CreateTrunkFinish(s) ==
    /\ sessions[s].pc = "create_sip_trunk"
    /\ \E init \in InitOutcomes, probe \in ProbeOutcomes :
       LET trunk_id == sessions[s].trunk_id
           loaded == sessions[s].trunk
           ready == initialize_trunk_with_provider(loaded, init)
           trunk == perform_health_check(ready, probe).trunk
       IN
         /\ trunks' = [trunks EXCEPT ![trunk_id] =
                          flush_sip_trunk(trunks[trunk_id], loaded, trunk)]
         /\ last' = [op |-> "create_sip_trunk", ret |-> "ok",
                     trunk_id |-> trunk_id,
                     initialized |-> initialized(loaded, init)]
         /\ history' = [history EXCEPT ![trunk_id] = count_probe(@, ready, probe)]
    /\ sessions' = [sessions EXCEPT ![s] = Idle]
    /\ UNCHANGED calls

(* update_sip_trunk up to the awaited SELECT of the trunk *)
UpdateTrunkBegin(s, user_id, trunk_id, update_data) ==
    /\ sessions[s].pc = "idle"
    /\ LET trunk == get_trunk(user_id, trunk_id) IN
         IF ~IsSet(trunk)
         THEN \* return None
              /\ last' = [op |-> "update_sip_trunk", ret |-> "None",
                          trunk_id |-> trunk_id, initialized |-> FALSE]
              /\ UNCHANGED sessions
         ELSE /\ sessions' = [sessions EXCEPT ![s] =
                     [pc |-> "update_sip_trunk", trunk_id |-> trunk_id,
                      trunk |-> Val(trunk), update_data |-> update_data]]
              /\ UNCHANGED last
    /\ UNCHANGED <<trunks, calls, history>>

(* update_sip_trunk from the setattr loop to the commit and the refresh; the
   request ends here unless the configuration changed *)
UpdateTrunkCommit(s) ==
    /\ sessions[s].pc = "update_sip_trunk"
    /\ LET trunk_id == sessions[s].trunk_id
           loaded == sessions[s].trunk
           trunk == set_trunk_fields(loaded, sessions[s].update_data)
           row == flush_sip_trunk(trunks[trunk_id], loaded, trunk)
       IN
         /\ trunks' = [trunks EXCEPT ![trunk_id] = row]
         /\ IF configuration_changed(sessions[s].update_data)
            THEN /\ sessions' = [sessions EXCEPT ![s] =
                        [pc |-> "update_sip_trunk_initialize",
                         trunk_id |-> trunk_id, trunk |-> row]]
                 /\ UNCHANGED last
            ELSE /\ sessions' = [sessions EXCEPT ![s] = Idle]
                 /\ last' = [op |-> "update_sip_trunk", ret |-> "ok",
                             trunk_id |-> trunk_id, initialized |-> FALSE]
    /\ UNCHANGED <<calls, history>>

(* update_sip_trunk from the provider initialization to the commit of the
   request's session (get_db) *)
UpdateTrunkFinish(s) ==
    /\ sessions[s].pc = "update_sip_trunk_initialize"
    /\ \E init \in InitOutcomes :
       LET trunk_id == sessions[s].trunk_id
           loaded == sessions[s].trunk
           trunk == initialize_trunk_with_provider(loaded, init)
       IN
         /\ trunks' = [trunks EXCEPT ![trunk_id] =
                          flush_sip_trunk(trunks[trunk_id], loaded, trunk)]
         /\ last' = [op |-> "update_sip_trunk", ret |-> "ok",
                     trunk_id |-> trunk_id,
                     initialized |-> initialized(loaded, init)]
    /\ sessions' = [sessions EXCEPT ![s] = Idle]
    /\ UNCHANGED <<calls, history>>

(* delete_sip_trunk up to the awaited SELECT of the trunk *)
DeleteTrunkBegin(s, user_id, trunk_id) ==
    /\ sessions[s].pc = "idle"
    /\ LET trunk == get_trunk(user_id, trunk_id) IN
         IF ~IsSet(trunk)
         THEN \* return False
              /\ last' = [op |-> "delete_sip_trunk", ret |-> "False",
                          trunk_id |-> trunk_id, initialized |-> FALSE]
              /\ UNCHANGED sessions
         ELSE IF Val(trunk).current_active_calls > 0
         THEN \* raise ValueError("Cannot delete trunk with active calls")
              /\ last' = [op |-> "delete_sip_trunk", ret |-> "ValueError",
                          trunk_id |-> trunk_id, initialized |-> FALSE]
              /\ UNCHANGED sessions
         ELSE /\ sessions' = [sessions EXCEPT ![s] =
                     [pc |-> "delete_sip_trunk", trunk_id |-> trunk_id,
                      trunk |-> Val(trunk)]]
              /\ UNCHANGED last
    /\ UNCHANGED <<trunks, calls, history>>

(* delete_sip_trunk from setting deleted_at and status to the commit *)
DeleteTrunkCommit(s) ==
    /\ sessions[s].pc = "delete_sip_trunk"
    /\ LET trunk_id == sessions[s].trunk_id
           loaded == sessions[s].trunk
           trunk == [loaded EXCEPT !.deleted_at = Some(1), !.status = "inactive"]
       IN
         /\ trunks' = [trunks EXCEPT ![trunk_id] =
                          flush_sip_trunk(trunks[trunk_id], loaded, trunk)]
         /\ last' = [op |-> "delete_sip_trunk", ret |-> "True",
                     trunk_id |-> trunk_id, initialized |-> FALSE]
    /\ sessions' = [sessions EXCEPT ![s] = Idle]
    /\ UNCHANGED <<calls, history>>

\* the update requests of an owner: put the trunk in service, or change the
\* SIP password
TrunkUpdateRequests ==
    {SipTrunkUpdate({"status"}, Some("active")),
     SipTrunkUpdate({"sip_password"}, None)}

\* no trunk has been created yet
AdminInit ==
    /\ trunks = [t \in {} |-> NoCall]
    /\ calls = [c \in CallIds |-> NoCall]
    /\ sessions = [s \in SessionIds |-> Idle]
    /\ last = NoReturn
    /\ history = NoHistory

AdminNext ==
    \/ \E s \in SessionIds, pv \in {"twilio", "custom"} :
          CreateTrunkBegin(s, "u1", pv)
    \/ \E s \in SessionIds : CreateTrunkFinish(s)
    \/ \E s \in SessionIds, t \in AdminTrunkIds, u \in TrunkUpdateRequests :
          UpdateTrunkBegin(s, "u1", t, u)
    \/ \E s \in SessionIds : UpdateTrunkCommit(s)
    \/ \E s \in SessionIds : UpdateTrunkFinish(s)
    \/ \E s \in SessionIds, t \in AdminTrunkIds : DeleteTrunkBegin(s, "u1", t)
    \/ \E s \in SessionIds : DeleteTrunkCommit(s)
    \/ \E s \in SessionIds : HealthChecksBegin(s, Some("u1"))
    \/ \E s \in SessionIds : HealthChecksCommit(s)
    \/ \E s \in SessionIds, t \in AdminTrunkIds : LogCallBegin(s, "c1", t)
    \/ \E s \in SessionIds : LogCallCommit(s)
    \/ SelectTrunk("u1", "outbound")

SpecAdmin == AdminInit /\ [][AdminNext]_vars

(* ------------------- call lifecycle with duration and cost ------------- *)

(* update_call_log up to the awaited SELECT of the call record *)
UpdateCallLogBegin(s, call_id, update_data) ==
    /\ sessions[s].pc = "idle"
    /\ IF ~calls[call_id].created
       THEN \* return None
            /\ last' = [op |-> "update_call_log", ret |-> "None"]
            /\ UNCHANGED <<trunks, calls, sessions, history>>
       ELSE /\ sessions' = [sessions EXCEPT ![s] =
                   [pc |-> "update_call_log", call_id |-> call_id,
                    update_data |-> update_data, call_log |-> calls[call_id]]]
            /\ UNCHANGED <<trunks, calls, last, history>>

(* update_call_log from the setattr loop to the awaited commit *)
UpdateCallLogCommit(s) ==
    /\ sessions[s].pc = "update_call_log"
    /\ LET call_id == sessions[s].call_id
           update_data == sessions[s].update_data
           loaded == sessions[s].call_log
           trunk_id == loaded.sip_trunk_id
           release == call_ended_now(update_data,
                          set_update_fields(loaded, update_data))
           call_log == updated_call_log(loaded, update_data,
                                        get_trunk_by_id(trunk_id))
       IN
         /\ trunks' = IF release
                      THEN [trunks EXCEPT ![trunk_id] =
                              decrement_active_calls(trunks[trunk_id])]
                      ELSE trunks
         /\ calls' = [calls EXCEPT ![call_id] =
                         flush_call_log(calls[call_id], loaded, call_log)]
         /\ last' = [op |-> "update_call_log", ret |-> "ok"]
    /\ sessions' = [sessions EXCEPT ![s] = Idle]
    /\ UNCHANGED history

\* cost_per_minute of the trunks calls are billed on, in cents
Rates == {3}

\* when a call is answered and when it ends, in half seconds: an end a second
\* before, at, and a second and a half after the answer
AnswerTimes == {2}

EndTimes == {0, 2, 5}

\* the lifecycle events with their timestamps, and a final event that carries
\* a duration_seconds of 9 and a cost of 7 the client put in it
BillingRequests ==
    {[fields_set |-> {"status", "answered_at"}, status |-> Some("answered"),
      answered_at |-> Some(t), ended_at |-> None] : t \in AnswerTimes}
    \cup {[fields_set |-> {"status", "ended_at"}, status |-> Some(st),
           answered_at |-> None, ended_at |-> Some(t)] :
            st \in {"ended", "failed"}, t \in EndTimes}
    \cup {[fields_set |-> {"status", "ended_at", "duration_seconds", "cost"},
           status |-> Some("ended"), answered_at |-> None, ended_at |-> Some(t),
           duration_seconds |-> Some(9), cost |-> Some(7)] :
            t \in EndTimes \ {0}}

\* a trunk in service, with its rate
BillingRows ==
    {[cost_per_minute |-> r] @@
     TrunkRow("u1", "active", "healthy", "bidirectional", MaxCap, 0, 1, None) :
        r \in Rates}

BillingInit ==
    /\ trunks \in [{"t1"} -> BillingRows]
    /\ calls = [c \in CallIds |-> NoCall]
    /\ sessions = [s \in SessionIds |-> Idle]
    /\ last = NoReturn
    /\ history = NoHistory

BillingNext ==
    \/ LogCallBegin("s1", "c1", "t1")
    \/ LogCallCommit("s1")
    \/ \E s \in SessionIds, u \in BillingRequests :
          UpdateCallLogBegin(s, "c1", u)
    \/ \E s \in SessionIds : UpdateCallLogCommit(s)

SpecBilling == BillingInit /\ [][BillingNext]_vars

(* ------------------ capacity changes on a trunk in use ----------------- *)

\* the SipTrunkUpdate bodies that set max_concurrent_calls (ge=1)
CapacityRequests ==
    {[fields_set |-> {"max_concurrent_calls"}, max_concurrent_calls |-> Some(m)] :
        m \in 1..MaxCap}

\* a trunk in service with no call yet
CapacityRows ==
    {SipTrunk("u1", "twilio", "active", "healthy", "bidirectional", m, 0, 1, None) :
        m \in 1..MaxCap}

CapacityInit ==
    /\ trunks \in [{"t1"} -> CapacityRows]
    /\ calls = [c \in CallIds |-> NoCall]
    /\ sessions = [s \in SessionIds |-> Idle]
    /\ last = NoReturn
    /\ history = NoHistory

CapacityNext ==
    \/ \E s \in SessionIds, c \in CallIds : LogCallBegin(s, c, "t1")
    \/ \E s \in SessionIds : LogCallCommit(s)
    \/ \E s \in SessionIds, u \in CapacityRequests :
          UpdateTrunkBegin(s, "u1", "t1", u)
    \/ \E s \in SessionIds : UpdateTrunkCommit(s)

SpecCapacity == CapacityInit /\ [][CapacityNext]_vars

(* ------------------- the call endpoints, per account ------------------ *)

\* Depends(get_current_user): the account a request's session belongs to
current_user(s) == IF s = "s1" THEN "u1" ELSE "u2"

\* each account has one trunk in service
TenantRows(user_id) ==
    {TrunkRow(user_id, "active", "healthy", "bidirectional", m, 0, 1, None) :
        m \in 1..MaxCap}

TenantInit ==
    /\ trunks \in [TrunkIds -> TenantRows("u1") \cup TenantRows("u2")]
    /\ trunks["t1"] \in TenantRows("u1")
    /\ trunks["t2"] \in TenantRows("u2")
    /\ calls = [c \in CallIds |-> NoCall]
    /\ sessions = [s \in SessionIds |-> Idle]
    /\ last = NoReturn
    /\ history = NoHistory

(* POST /calls and PUT /calls/{call_id}: the endpoints hand call_data, call_id
   and update_data to the service and leave current_user unused *)
TenantNext ==
    \/ \E s \in SessionIds, t \in TrunkIds : LogCallBegin(s, "c1", t)
    \/ \E s \in SessionIds : LogCallCommit(s)
    \/ \E s \in SessionIds, u \in UpdateRequests : UpdateCallLogBegin(s, "c1", u)
    \/ \E s \in SessionIds : UpdateCallLogCommit(s)

SpecTenant == TenantInit /\ [][TenantNext]_vars

(* ----------------------- the trunk quota of a tier --------------------- *)

(* create_sip_trunk up to the awaited count of the user's trunks *)
CreateTrunkCount(s, user_id, provider) ==
    /\ sessions[s].pc = "idle"
    /\ sessions' = [sessions EXCEPT ![s] =
           [pc |-> "create_sip_trunk_count", user_id |-> user_id,
            provider |-> provider,
            current_trunks |-> count_user_trunks(user_id)]]
    /\ UNCHANGED <<trunks, calls, last, history>>

(* create_sip_trunk from the limit check to the commit that inserts the row *)
CreateTrunkInsert(s) ==
    /\ sessions[s].pc = "create_sip_trunk_count"
    /\ new_trunk_id \notin DOMAIN trunks
    /\ LET user_id == sessions[s].user_id
           max_trunks == get_max_trunks_for_tier(UserTier(user_id))
       IN
         IF sessions[s].current_trunks >= max_trunks
         THEN \* raise ValueError("Maximum number of trunks ... reached"), rollback
              /\ last' = [op |-> "create_sip_trunk", ret |-> "ValueError",
                          trunk_id |-> "", initialized |-> FALSE]
              /\ sessions' = [sessions EXCEPT ![s] = Idle]
              /\ UNCHANGED trunks
         ELSE LET trunk == new_sip_trunk(user_id, sessions[s].provider, MaxCap) IN
                /\ trunks' = (new_trunk_id :> trunk) @@ trunks
                /\ sessions' = [sessions EXCEPT ![s] =
                       [pc |-> "create_sip_trunk", trunk_id |-> new_trunk_id,
                        trunk |-> trunk]]
                /\ UNCHANGED last
    /\ UNCHANGED <<calls, history>>

\* the account that creates and deletes trunks: u2, on the free tier
QuotaNext ==
    \/ \E s \in SessionIds, pv \in {"twilio", "custom"} :
          CreateTrunkCount(s, "u2", pv)
    \/ \E s \in SessionIds : CreateTrunkInsert(s)
    \/ \E s \in SessionIds : CreateTrunkFinish(s)
    \/ \E s \in SessionIds, t \in TrunkIds : DeleteTrunkBegin(s, "u2", t)
    \/ \E s \in SessionIds : DeleteTrunkCommit(s)

SpecQuota == AdminInit /\ [][QuotaNext]_vars

(* --------------------- the health check of one trunk ------------------- *)

(* POST /trunks/{trunk_id}/health-check up to the awaited SELECT of
   perform_health_checks(current_user.id) *)
PerformTrunkHealthCheckBegin(s, user_id, trunk_id) ==
    /\ sessions[s].pc = "idle"
    /\ IF ~IsSet(get_trunk(user_id, trunk_id))
       THEN \* HTTP 404 "SIP trunk not found"
            /\ last' = [op |-> "perform_trunk_health_check", ret |-> "404"]
            /\ UNCHANGED sessions
       ELSE /\ sessions' = [sessions EXCEPT ![s] =
                   [pc |-> "perform_health_checks",
                    loaded |-> [t \in health_check_rows(Some(user_id)) |-> trunks[t]],
                    trunk_id |-> trunk_id]]
            /\ UNCHANGED last
    /\ UNCHANGED <<trunks, calls, history>>

\* owners ask for the health check of one of their trunks, or of a trunk that
\* is not theirs
OnDemandNext ==
    \/ \E s \in SessionIds, t \in TrunkIds :
          PerformTrunkHealthCheckBegin(s, "u1", t)
    \/ \E s \in SessionIds : HealthChecksCommit(s)

SpecOnDemand == HealthInit /\ [][OnDemandNext]_vars

(* ------------------------------ properties ----------------------------- *)

\* the call records of trunk t
RecordsOn(t) == {c \in CallIds : calls[c].created /\ calls[c].sip_trunk_id = t}

\* the call records of trunk t that have not ended
OpenRecordsOn(t) == {c \in RecordsOn(t) : ~IsSet(calls[c].ended_at)}

\* the call records of trunk t whose admission incremented the counter
AdmittedOn(t) == {c \in RecordsOn(t) : calls[c].admitted}

\* some log_call on trunk t is between its SELECT and its commit
AdmissionInFlight(t) ==
    \E s \in SessionIds :
        sessions[s].pc = "log_call" /\ sessions[s].sip_trunk_id = t

\* the legal edges of the call lifecycle
LegalEdges ==
    {<<"initiated", "ringing">>, <<"initiated", "answered">>,
     <<"initiated", "failed">>, <<"ringing", "answered">>,
     <<"ringing", "failed">>, <<"answered", "ended">>,
     <<"answered", "failed">>}

\* this step moves call c along a legal edge into a terminal state and sets
\* its ended_at for the first time
FirstTerminal(c) ==
    /\ calls[c].created
    /\ <<calls[c].status, calls'[c].status>> \in LegalEdges
    /\ calls'[c].status \in {"ended", "failed"}
    /\ ~IsSet(calls[c].ended_at)
    /\ IsSet(calls'[c].ended_at)

\* C1: on every trunk the call records created and not yet ended never
\* outnumber max_concurrent_calls, whatever the interleaving of admissions
\* and terminations
C1_OpenCallsWithinCapacity ==
    \A t \in TrunkIds :
        Cardinality(OpenRecordsOn(t)) <= trunks[t].max_concurrent_calls

\* C2: in every reachable state every trunk has
\* 0 <= current_active_calls <= max_concurrent_calls
C2_CounterWithinCapacity ==
    \A t \in TrunkIds :
        /\ 0 <= trunks[t].current_active_calls
        /\ trunks[t].current_active_calls <= trunks[t].max_concurrent_calls

\* a full trunk has turned an admission down
C2_Witness ==
    \E t \in TrunkIds :
        /\ trunks[t].current_active_calls = trunks[t].max_concurrent_calls
        /\ is_active(trunks[t])
        /\ \E c \in RecordsOn(t) : ~calls[c].admitted

\* C3: once K admission requests against an active, healthy trunk of capacity
\* C < K have completed (none of the calls ended), exactly C were admitted,
\* K - C were not, and the counter is C
C3_ExactlyCapacityAdmitted ==
    \A t \in TrunkIds :
        ( /\ is_active(trunks[t])
          /\ ~AdmissionInFlight(t)
          /\ OpenRecordsOn(t) = RecordsOn(t)
          /\ Cardinality(RecordsOn(t)) > trunks[t].max_concurrent_calls )
        => /\ Cardinality(AdmittedOn(t)) = trunks[t].max_concurrent_calls
           /\ Cardinality(RecordsOn(t) \ AdmittedOn(t)) =
                 Cardinality(RecordsOn(t)) - trunks[t].max_concurrent_calls
           /\ trunks[t].current_active_calls = trunks[t].max_concurrent_calls

\* the preconditions of increment_active_calls as the claim C4 states them
AdmitsPerClaim(trunk) ==
    /\ trunk.status = "active"
    /\ trunk.health_status \in {"healthy", "unknown"}
    /\ trunk.current_active_calls < trunk.max_concurrent_calls

\* the preconditions of increment_active_calls with health Healthy only
AdmitsHealthy(trunk) ==
    /\ trunk.status = "active"
    /\ trunk.health_status = "healthy"
    /\ trunk.current_active_calls < trunk.max_concurrent_calls

C5_ReleasedAtFirstTerminal ==
    [][ /\ \A c \in CallIds :
              (FirstTerminal(c) /\ calls[c].admitted) =>
                  trunks'[calls[c].sip_trunk_id].current_active_calls =
                      trunks[calls[c].sip_trunk_id].current_active_calls - 1
        /\ \A t \in TrunkIds :
              trunks'[t].current_active_calls < trunks[t].current_active_calls
                 => \E c \in RecordsOn(t) : FirstTerminal(c) ]_vars

\* C6: an update that delivers ended_at to a call that already has ended_at
\* leaves every trunk's counter as it was, and not below zero
C6_RedeliveryKeepsCounter ==
    [][ ( /\ last'.op = "update_call_log"
          /\ last'.ret = "ok"
          /\ last'.redelivered )
        => \A t \in TrunkIds :
              /\ trunks'[t].current_active_calls = trunks[t].current_active_calls
              /\ trunks'[t].current_active_calls >= 0 ]_vars

\* a terminal event has been delivered again for an admitted call whose trunk
\* still counts calls
C6_Witness ==
    /\ last.op = "update_call_log"
    /\ last.ret = "ok"
    /\ last.redelivered
    /\ \E c \in CallIds :
          /\ calls[c].created /\ calls[c].admitted /\ IsSet(calls[c].ended_at)
          /\ trunks[calls[c].sip_trunk_id].current_active_calls > 0

\* C7: decrement_active_calls takes one off a positive counter, leaves a zero
\* counter at zero, and never makes it negative
C7_DecrementClampedAtZero ==
    last.op = "decrement_active_calls" =>
        /\ trunks[last.trunk_id].current_active_calls =
              (IF last.before.current_active_calls > 0
               THEN last.before.current_active_calls - 1 ELSE 0)
        /\ trunks[last.trunk_id].current_active_calls >= 0

\* decrement_active_calls has run on a trunk whose counter was zero
C7_Witness ==
    /\ last.op = "decrement_active_calls"
    /\ last.before.current_active_calls = 0
    /\ trunks[last.trunk_id].current_active_calls = 0

\* C8: an update changes a call record only along a legal edge; any other
\* update is answered InvalidTransition and leaves the record and the trunk
\* counters as they were
C8_OnlyLegalTransitions ==
    [][ \A c \in CallIds :
           calls[c].created =>
              \/ <<calls[c].status, calls'[c].status>> \in LegalEdges
              \/ /\ calls'[c] = calls[c]
                 /\ \A t \in TrunkIds :
                       trunks'[t].current_active_calls =
                           trunks[t].current_active_calls ]_vars

\* C9: when a call on a full trunk goes from answered to ended, the trunk's
\* counter drops by one and the trunk can take a call again
C9_EndingACallFreesALine ==
    [][ \A c \in CallIds :
           ( /\ calls[c].created
             /\ calls[c].status = "answered"
             /\ calls'[c].status = "ended"
             /\ trunks[calls[c].sip_trunk_id].current_active_calls =
                   trunks[calls[c].sip_trunk_id].max_concurrent_calls )
           => /\ trunks'[calls[c].sip_trunk_id].current_active_calls =
                    trunks[calls[c].sip_trunk_id].max_concurrent_calls - 1
              /\ can_handle_call(trunks'[calls[c].sip_trunk_id]) ]_vars

\* C10: a trunk that selection returns belongs to the requesting account, is
\* not soft-deleted, is Active, is Healthy or Unknown, serves the requested
\* direction, and has a free line
C10_SelectedTrunkIsEligible ==
    (last.op = "get_available_trunk_for_call" /\ last.ret \in TrunkIds) =>
        LET trunk == trunks[last.ret] IN
          /\ trunk.user_id = last.user_id
          /\ ~IsSet(trunk.deleted_at)
          /\ trunk.status = "active"
          /\ trunk.health_status \in {"healthy", "unknown"}
          /\ trunk.call_direction \in {"bidirectional", last.direction}
          /\ trunk.current_active_calls < trunk.max_concurrent_calls

\* the candidates of a selection for this account and direction: own, not
\* soft-deleted, Active, Healthy or Unknown, direction compatible, a free line
EligibleFor(user_id, direction) ==
    {t \in DOMAIN trunks :
        /\ trunks[t].user_id = user_id
        /\ ~IsSet(trunks[t].deleted_at)
        /\ trunks[t].status = "active"
        /\ trunks[t].health_status \in {"healthy", "unknown"}
        /\ trunks[t].call_direction \in {"bidirectional", direction}
        /\ trunks[t].current_active_calls < trunks[t].max_concurrent_calls}

\* the place of a trunk id in ascending id order
IdRank(t) == IF t = "t1" THEN 1 ELSE 2

\* trunk a comes before trunk b in the order (priority ascending,
\* current_active_calls ascending, id ascending)
Preferred(a, b) ==
    \/ trunks[a].priority < trunks[b].priority
    \/ /\ trunks[a].priority = trunks[b].priority
       /\ trunks[a].current_active_calls < trunks[b].current_active_calls
    \/ /\ trunks[a].priority = trunks[b].priority
       /\ trunks[a].current_active_calls = trunks[b].current_active_calls
       /\ IdRank(a) < IdRank(b)

\* C11: whenever the account has one or more eligible trunks, selection
\* returns the eligible trunk that is first in the order (priority ascending,
\* current_active_calls ascending, id ascending)
C11_ReturnsMostPreferredEligible ==
    last.op = "get_available_trunk_for_call" =>
        LET eligible == EligibleFor(last.user_id, last.direction) IN
          eligible # {} =>
              /\ last.ret \in eligible
              /\ \A t \in eligible \ {last.ret} : Preferred(last.ret, t)

\* C12: when selection returns a trunk, that trunk's counter has been
\* incremented for the request, so the last free line of a trunk is handed
\* out once
C12_SelectionAdmits ==
    [][ (last'.op = "get_available_trunk_for_call" /\ last'.ret \in TrunkIds)
        => trunks'[last'.ret].current_active_calls =
               trunks[last'.ret].current_active_calls + 1 ]_vars

\* C20: log_call against a trunk id that matches no row fails (NotFound), and
\* log_call against a trunk that is not Active fails (Ineligible); in both
\* cases no trunk counter changes and no call record is created
C20_RefusedAdmissionChangesNothing ==
    [][ /\ (last'.op = "log_call" /\ last'.ret = "ValueError")
              => (calls' = calls /\ trunks' = trunks)
        /\ \A c \in CallIds :
              calls'[c].created => calls'[c].sip_trunk_id \in DOMAIN trunks
        /\ \A s \in SessionIds :
              ( /\ sessions[s].pc = "log_call"
                /\ sessions'[s].pc = "idle"
                /\ ~calls[sessions[s].call_id].created
                /\ sessions[s].trunk.status # "active" )
              => /\ last'.op = "log_call"
                 /\ last'.ret = "Ineligible"
                 /\ calls' = calls
                 /\ trunks' = trunks ]_vars

\* session s commits a perform_health_checks run in this step
HealthRunEnds(s) ==
    sessions[s].pc = "perform_health_checks" /\ sessions'[s].pc = "idle"

\* C15: once three probes in a row of an Active trunk have failed, the trunk's
\* status and health_status are Error and selection no longer returns it;
\* fewer failures in a row do not move an Active trunk to Error
C15_ThreeFailuresSetError ==
    [][ /\ \A t \in DOMAIN trunks :
              history'[t] = 3 =>
                  /\ trunks'[t].status = "error"
                  /\ trunks'[t].health_status = "error"
        /\ \A t \in DOMAIN trunks :
              (trunks[t].status = "active" /\ trunks'[t].status = "error")
                  => history'[t] = 3
        /\ (last'.op = "get_available_trunk_for_call" /\ last'.ret \in TrunkIds)
              => history'[last'.ret] < 3 ]_vars

\* C16: one successful probe of a trunk whose status is Error sets its
\* health_status to Healthy and its status back to Active
C16_SuccessRestoresActive ==
    [][ \A s \in SessionIds : \A t \in DOMAIN trunks :
           ( /\ HealthRunEnds(s)
             /\ t \in DOMAIN sessions[s].loaded
             /\ trunks[t] = sessions[s].loaded[t]
             /\ trunks[t].status = "error"
             /\ last'.health_results[t] = "healthy" )
           => /\ trunks'[t].health_status = "healthy"
              /\ trunks'[t].status = "active" ]_vars

\* C17: a perform_health_checks run returns normally whatever the probes do;
\* every trunk it loaded has a result, a probe that raised has the result
\* Error, and each result is the health_status of its trunk after the commit
\* (of a trunk no other run has written in between)
C17_FailedProbeIsRecorded ==
    [][ \A s \in SessionIds :
           HealthRunEnds(s) =>
              /\ last'.op = "perform_health_checks"
              /\ last'.ret = "ok"
              /\ DOMAIN last'.health_results = DOMAIN sessions[s].loaded
              /\ \A t \in DOMAIN sessions[s].loaded :
                    /\ (last'.outcomes[t] = "raise" /\ trunks[t].provider \in providers)
                          => last'.health_results[t] = "error"
                    /\ trunks[t] = sessions[s].loaded[t]
                          => trunks'[t].health_status = last'.health_results[t] ]_vars

\* a run over two trunks has ended in which the probe of one raised and the
\* probe of the other succeeded, and each trunk carries its own result
C17_Witness ==
    /\ last.op = "perform_health_checks"
    /\ DOMAIN last.health_results = TrunkIds
    /\ \E a, b \in TrunkIds :
          /\ last.outcomes[a] = "raise" /\ last.health_results[a] = "error"
          /\ trunks[a].health_status = "error"
          /\ last.outcomes[b] = "healthy" /\ last.health_results[b] = "healthy"
          /\ trunks[b].health_status = "healthy"

\* this step ends a request in which provider.initialize_trunk returned for
\* trunk t
InitializedNow(t) ==
    /\ last'.op \in {"create_sip_trunk", "update_sip_trunk"}
    /\ last'.ret = "ok"
    /\ last'.trunk_id = t
    /\ last'.initialized
    /\ \E s \in SessionIds :
          sessions[s].pc \in {"create_sip_trunk", "update_sip_trunk_initialize"}
          /\ sessions'[s].pc = "idle"

\* C18: a trunk is created with status Inactive, and a step moves a trunk to
\* Active only when a provider initialization of that trunk has succeeded; no
\* other operation, update_sip_trunk included, makes a trunk Active
C18_ActiveOnlyAfterInitialization ==
    [][ \A t \in DOMAIN trunks' :
           /\ t \notin DOMAIN trunks => trunks'[t].status = "inactive"
           /\ ( /\ t \in DOMAIN trunks
                /\ trunks[t].status # "active"
                /\ trunks'[t].status = "active" ) => InitializedNow(t) ]_vars

\* this step is a trunk selection
SelectionNow ==
    /\ last'.op = "get_available_trunk_for_call"
    /\ UNCHANGED <<trunks, calls, sessions, history>>

\* C19: a trunk whose deleted_at is set is never returned by selection, and
\* no update, health check or call operation clears deleted_at again
C19_DeletedTrunkNeverSelected ==
    [][ /\ (SelectionNow /\ last'.ret \in TrunkIds)
              => ~IsSet(trunks[last'.ret].deleted_at)
        /\ \A t \in DOMAIN trunks :
              IsSet(trunks[t].deleted_at) => IsSet(trunks'[t].deleted_at) ]_vars

\* a selection for the owner has returned no trunk while the owner's deleted
\* trunk is Active, Healthy and has a free line
C19_Witness ==
    /\ last.op = "get_available_trunk_for_call"
    /\ last.ret = "None"
    /\ \E t \in DOMAIN trunks :
          /\ IsSet(trunks[t].deleted_at)
          /\ trunks[t].user_id = last.user_id
          /\ is_active(trunks[t])
          /\ trunks[t].current_active_calls < trunks[t].max_concurrent_calls

(* ------------------- properties of duration and cost ------------------- *)

\* session s commits an update_call_log that carries ended_at, for a call it
\* loaded before any ended_at was stored
TerminalCommit(s) ==
    /\ sessions[s].pc = "update_call_log"
    /\ sessions'[s].pc = "idle"
    /\ IsSet(sessions[s].update_data.ended_at)
    /\ ~IsSet(sessions[s].call_log.ended_at)

\* the counter after one release
Released(n) == IF n > 0 THEN n - 1 ELSE 0

\* C21: of the terminal updates of one call that run concurrently, the one that
\* commits first takes effect and releases the call's line; one that commits
\* after another terminal update was stored is rejected: it returns an error
\* and changes neither the call record nor the trunk counter.
C21_TerminalUpdatesSerialized ==
    [][\A s \in SessionIds :
         TerminalCommit(s) =>
           LET c == sessions[s].call_id
               t == sessions[s].call_log.sip_trunk_id
           IN IF IsSet(calls[c].ended_at)
              THEN /\ calls' = calls
                   /\ trunks' = trunks
                   /\ last'.ret # "ok"
              ELSE /\ IsSet(calls'[c].ended_at)
                   /\ trunks'[t].current_active_calls =
                        Released(trunks[t].current_active_calls)]_vars

\* whole seconds from answered_at to ended_at, rounded down, at least 0
WholeSeconds(call_log) ==
    LET floor == (Val(call_log.ended_at) - Val(call_log.answered_at)) \div 2
    IN IF floor > 0 THEN floor ELSE 0

\* C22: when an answered call gets its ended_at, duration_seconds is the whole
\* seconds from answered_at to ended_at rounded down, and 0 when ended_at is
\* the earlier of the two; it is never negative.
C22_DurationIsFlooredAndNotNegative ==
    [][\A c \in CallIds :
         (/\ calls[c].created
          /\ IsSet(calls[c].answered_at)
          /\ ~IsSet(calls[c].ended_at)
          /\ IsSet(calls'[c].ended_at))
         => calls'[c].duration_seconds = Some(WholeSeconds(calls'[c]))]_vars

\* duration_seconds of a record, 0 when unset
DurationOf(call_log) ==
    IF IsSet(call_log.duration_seconds) THEN Val(call_log.duration_seconds) ELSE 0

\* C23: after an update takes a call from answered to ended, the stored cost is
\* (duration_seconds / 60) * cost_per_minute of its trunk (in sixtieths of a
\* cent: duration_seconds * rate), whatever the request carried.
C23_CostIsDurationTimesRate ==
    [][\A c \in CallIds :
         (/\ calls[c].created
          /\ calls[c].status = "answered"
          /\ calls'[c].status = "ended")
         => calls'[c].cost =
              DurationOf(calls'[c])
                * cost_per_minute(trunks[calls[c].sip_trunk_id])]_vars

\* C24: after an update marks a call failed, from initiated, ringing or
\* answered, its duration_seconds is unset or 0 and its cost is 0.
C24_FailedCallHasNoDurationOrCost ==
    [][\A c \in CallIds :
         (/\ calls[c].created
          /\ calls[c].status \in {"initiated", "ringing", "answered"}
          /\ calls'[c].status = "failed")
         => /\ DurationOf(calls'[c]) = 0
            /\ calls'[c].cost = 0]_vars

(* ------------------ properties of the admitting requests --------------- *)

\* no request is between two of its awaits
Quiescent == \A s \in SessionIds : sessions[s].pc = "idle"

\* C25: once the log_call and update_call_log requests issued so far have
\* returned, every trunk's current_active_calls is the number of its call
\* records without ended_at, and every call record was created by an
\* admission that succeeded.
C25_CounterEqualsOpenRecords ==
    Quiescent =>
        /\ \A t \in TrunkIds :
              trunks[t].current_active_calls = Cardinality(OpenRecordsOn(t))
        /\ \A c \in CallIds : calls[c].created => calls[c].admitted

(* ---------------------- properties of capacity changes ----------------- *)

\* C26: after an update_sip_trunk commit that changes max_concurrent_calls of
\* a trunk with calls in progress, the trunk still has
\* current_active_calls <= max_concurrent_calls.
C26_UpdateKeepsCounterWithinCapacity ==
    [][\A s \in SessionIds :
         (/\ sessions[s].pc = "update_sip_trunk"
          /\ sessions'[s].pc # "update_sip_trunk"
          /\ trunks[sessions[s].trunk_id].current_active_calls > 0
          /\ trunks'[sessions[s].trunk_id].max_concurrent_calls
               # trunks[sessions[s].trunk_id].max_concurrent_calls)
         => trunks'[sessions[s].trunk_id].current_active_calls
              <= trunks'[sessions[s].trunk_id].max_concurrent_calls]_vars

(* ----------------------- properties of the accounts -------------------- *)

\* the request of session s returns in this step from log_call or
\* update_call_log
CallRequestReturns(s) ==
    /\ sessions[s].pc \in {"log_call", "update_call_log"}
    /\ sessions'[s].pc = "idle"

\* C27: a log_call or update_call_log request of one account changes
\* current_active_calls of no trunk of another account and changes no call
\* record of another account.
C27_CallRequestsStayInTheirAccount ==
    [][\A s \in SessionIds :
         CallRequestReturns(s) =>
           /\ \A t \in DOMAIN trunks :
                 trunks[t].user_id # current_user(s)
                 => trunks'[t].current_active_calls
                      = trunks[t].current_active_calls
           /\ \A c \in CallIds :
                 (calls[c].created /\ calls[c].user_id # current_user(s))
                 => calls'[c] = calls[c]]_vars

(* ------------------------ properties of deletion ----------------------- *)

\* the delete_sip_trunk request of session s commits in this step
DeleteReturns(s) ==
    /\ sessions[s].pc = "delete_sip_trunk"
    /\ sessions'[s].pc = "idle"

\* C28: a delete_sip_trunk that reaches a trunk with current_active_calls > 0
\* fails with an error and leaves the trunk as it was; and whatever log_call
\* requests run alongside, no soft-deleted trunk has current_active_calls > 0
\* and no call record is created on a soft-deleted trunk.
C28_NoCallsOnDeletedTrunk ==
    [][ /\ \A s \in SessionIds :
              (/\ DeleteReturns(s)
               /\ trunks[sessions[s].trunk_id].current_active_calls > 0)
              => /\ last'.ret = "ValueError"
                 /\ trunks' = trunks
        /\ \A t \in DOMAIN trunks' :
              IsSet(trunks'[t].deleted_at)
              => trunks'[t].current_active_calls = 0
        /\ \A c \in CallIds :
              (~calls[c].created /\ calls'[c].created)
              => ~IsSet(trunks[calls'[c].sip_trunk_id].deleted_at) ]_vars

(* ------------------------ properties of the quota ---------------------- *)

\* the rows of a sip_trunks table that belong to user_id and are not deleted
LiveTrunks(table, user_id) ==
    {t \in DOMAIN table :
        table[t].user_id = user_id /\ ~IsSet(table[t].deleted_at)}

\* C29: whatever create_sip_trunk and delete_sip_trunk requests run, and in
\* whatever order their steps interleave, no user has more trunks that are not
\* deleted than the user's tier allows; and a create that reaches its INSERT
\* while the user is at the limit fails with an error and adds no trunk.
C29_TrunksWithinTierLimit ==
    [][ /\ \A u \in UserIds :
              Cardinality(LiveTrunks(trunks', u))
                 <= get_max_trunks_for_tier(UserTier(u))
        /\ \A s \in SessionIds :
              (/\ sessions[s].pc = "create_sip_trunk_count"
               /\ sessions'[s].pc # "create_sip_trunk_count"
               /\ Cardinality(LiveTrunks(trunks, sessions[s].user_id))
                    >= get_max_trunks_for_tier(UserTier(sessions[s].user_id)))
              => /\ trunks' = trunks
                 /\ last'.ret = "ValueError" ]_vars

(* ------------------ properties of the on-demand check ------------------ *)

\* C30: a health check requested for one trunk probes that trunk only: it
\* leaves health_status of every other trunk, and current_active_calls and
\* max_concurrent_calls of every trunk, as they were.
C30_OnDemandCheckTouchesOneTrunk ==
    [][\A s \in SessionIds :
         (/\ sessions[s].pc = "perform_health_checks"
          /\ sessions'[s].pc = "idle")
         => /\ DOMAIN last'.health_results = {sessions[s].trunk_id}
            /\ \A t \in DOMAIN trunks :
                  /\ t # sessions[s].trunk_id
                     => trunks'[t].health_status = trunks[t].health_status
                  /\ trunks'[t].current_active_calls
                       = trunks[t].current_active_calls
                  /\ trunks'[t].max_concurrent_calls
                       = trunks[t].max_concurrent_calls]_vars

====
